---- MODULE Spec2Model ----
(***************************************************************************)
(* A model of the expense ledger of simple-budget-tracker:                 *)
(*   src/src/budget_tracker.py     BudgetTracker   (in-memory ledger)      *)
(*   src/src/budget_tracker_v2.py  BudgetTrackerV2 (limits, budget status) *)
(*                                                                         *)
(* A Decimal is modelled by the integer it denotes; an amount argument is  *)
(* either Python None, a Decimal instance, or a string given as a tuple of *)
(* characters which Decimal(str(amount)) parses or rejects.  A datetime is *)
(* a day number.  uuid4() is a fresh identifier drawn from a counter.      *)
(***************************************************************************)
EXTENDS Integers, Sequences, FiniteSets, TLC

\* ------------------------------------------------------------------------
\* Bounds of the model
\* ------------------------------------------------------------------------

\* how many expense identifiers uuid4() hands out in one run
MaxIds == 2

\* ------------------------------------------------------------------------
\* Values
\* ------------------------------------------------------------------------

\* Python's None, where a string is expected
None == "None"

\* Python's None, where a datetime is expected (datetimes are days 1, 2, ...)
NoDate == 0

Digits == {"0", "1", "2", "3", "4", "5", "6", "7", "8", "9"}

DigitValue(c) ==
    CASE c = "0" -> 0 [] c = "1" -> 1 [] c = "2" -> 2 [] c = "3" -> 3
      [] c = "4" -> 4 [] c = "5" -> 5 [] c = "6" -> 6 [] c = "7" -> 7
      [] c = "8" -> 8 [] c = "9" -> 9

\* the three shapes of an amount argument
NoAmount == [kind |-> "none", chars |-> <<>>, val |-> 0]
StrAmount(cs) == [kind |-> "str", chars |-> cs, val |-> 0]
DecAmount(v) == [kind |-> "dec", chars |-> <<>>, val |-> v]

\* str(amount): None prints as the word None, a Decimal as its digits
\* (only the parseability of the printed form matters for a Decimal)
AmountChars(amount) ==
    IF amount.kind = "none" THEN <<"N", "o", "n", "e">> ELSE amount.chars

\* Decimal(s) accepts an optional sign followed by at least one digit
IsDecimalLiteral(cs) ==
    LET body == IF Len(cs) > 0 /\ cs[1] = "-" THEN Tail(cs) ELSE cs
    IN  /\ Len(body) > 0
        /\ \A i \in 1..Len(body) : body[i] \in Digits

RECURSIVE DigitsValue(_)
DigitsValue(cs) ==
    IF Len(cs) = 0 THEN 0
    ELSE 10 * DigitsValue(SubSeq(cs, 1, Len(cs) - 1)) + DigitValue(cs[Len(cs)])

\* the number Decimal(s) denotes, for a literal it accepts
DecimalValue(cs) ==
    IF cs[1] = "-" THEN 0 - DigitsValue(Tail(cs)) ELSE DigitsValue(cs)

\* "if not isinstance(amount, Decimal): amount = Decimal(str(amount))"
\* raises InvalidOperation exactly when this is FALSE
AmountParses(amount) ==
    amount.kind = "dec" \/ IsDecimalLiteral(AmountChars(amount))

ToDecimal(amount) ==
    IF amount.kind = "dec" THEN amount.val ELSE DecimalValue(AmountChars(amount))

\* ------------------------------------------------------------------------
\* Inputs
\* ------------------------------------------------------------------------

\* the strings "010" (which denotes ten) and "x" (which denotes no number),
\* the Decimal instance 5, and None
AmountStrings == {<<"0", "1", "0">>, <<"x">>}
AmountArgs == {NoAmount, DecAmount(5)} \cup {StrAmount(cs) : cs \in AmountStrings}

Categories == {"Food", "Rent"}
CategoryArgs == Categories \cup {"", None}

Dates == {1, 2}
DateArgs == Dates \cup {NoDate}

Descriptions == {"", "lunch"}
DescriptionArgs == Descriptions \cup {None}

Ids == 1..MaxIds

\* ------------------------------------------------------------------------
\* State
\* ------------------------------------------------------------------------

VARIABLES
    expenses,       \* BudgetTracker._expenses: the list of Expense objects
    nextId,         \* the identifier the next uuid4() call returns
    last,           \* the last call made on the BudgetTracker, with its outcome
    v2_expenses,    \* BudgetTrackerV2._expenses (the tracker has no table)
    budget_limits,  \* BudgetTrackerV2._budget_limits: category -> limit
    v2_last,        \* the last call made on the BudgetTrackerV2, with its outcome
    http_last,      \* the last request served by the Flask application (its
                    \* budget_tracker is the list expenses), with the response
    db_table,       \* the items of the table of a BudgetTrackerV2 built with
                    \* db_table_name, by their key 'id'
    db_last,        \* the last call made on that tracker, with its outcome
    store_failed,   \* the table has refused a call of that tracker
    threads         \* the request each thread of the server is handling, the
                    \* statement it has reached and its local variables

vars == <<expenses, nextId, last, v2_expenses, budget_limits, v2_last, http_last,
          db_table, db_last, store_failed, threads>>

v1vars == <<expenses, last>>
dbvars == <<db_table, db_last, store_failed>>
v2vars == <<v2_expenses, budget_limits, v2_last, dbvars>>
appvars == <<http_last, threads>>

Expense(amount, category, date, description, expense_id) ==
    [id |-> expense_id, amount |-> amount, category |-> category,
     date |-> date, description |-> description]

\* outcomes of a call
Returned(kind) == [kind |-> kind, id |-> 0, list |-> <<>>]
ReturnedExpense(e) == [kind |-> "expense", id |-> e.id, list |-> <<e>>]
ReturnedList(l) == [kind |-> "list", id |-> 0, list |-> l]
ReturnedSummary(summary) == [kind |-> "summary", summary |-> summary]
ReturnedTotal(total) == [kind |-> "total", total |-> total]
Raised == Returned("ValueError")

Call(op, expense_id, amount, category, date, description, start_date, end_date, result) ==
    [op |-> op, expense_id |-> expense_id, amount |-> amount,
     category |-> category, date |-> date, description |-> description,
     start_date |-> start_date, end_date |-> end_date, result |-> result]

NoCall == Call("init", 0, NoAmount, None, NoDate, None, NoDate, NoDate, Returned("none"))

\* the JSON body of a request: a field the body lacks is NoAmount or None
Body(amount, category, date, description) ==
    [amount |-> amount, category |-> category, date |-> date,
     description |-> description]

\* "if not data": no body, or the empty object
NoBody == Body(NoAmount, None, None, None)

\* the Authorization header as the words of auth_header.split(' ');
\* request.headers.get('Authorization') is None when the header is absent
NoHeader == <<>>

\* a request served by the application and the response it got: the status
\* code, and whether the function wrapped by token_required was called
Request(endpoint, auth_header, expense_id, data, start_date, end_date, status, handled) ==
    [endpoint |-> endpoint, auth_header |-> auth_header,
     expense_id |-> expense_id, data |-> data,
     start_date |-> start_date, end_date |-> end_date,
     status |-> status, handled |-> handled]

NoRequest == Request("none", NoHeader, 0, NoBody, None, None, 0, FALSE)

\* the threads of the server, which handle requests at the same time
Threads == {"t1", "t2"}

\* the handler a thread runs (op), the statement it is about to execute (pc),
\* the arguments of the request, and the locals of the handler and of the
\* BudgetTracker method it is in: the record found as it was (before), the
\* index i of the loop, the summary (as its items) and the total, the status
\* of the response
Frame(op, pc, expense_id, amount, category, start_date, before, index, summary, total, status) ==
    [op |-> op, pc |-> pc, expense_id |-> expense_id, amount |-> amount,
     category |-> category, start_date |-> start_date, before |-> before,
     index |-> index, summary |-> summary, total |-> total, status |-> status]

IdleFrame == Frame("none", "idle", 0, NoAmount, None, NoDate, <<>>, 0, {}, 0, 0)

\* a date argument of BudgetTrackerV2: a datetime, or a string that
\* strptime(date, '%Y-%m-%d') parses or rejects
DatetimeArg(day) == [kind |-> "datetime", day |-> day, text |-> ""]
StrDateArg(text) == [kind |-> "str", day |-> 0, text |-> text]

\* the key 'date' is not in the dictionary handed to update_expense
NoDateArg == [kind |-> "none", day |-> 0, text |-> ""]

\* outcomes of a call on BudgetTrackerV2: the dictionary returned, or the
\* exception that leaves the method
V2Result(kind, expense_id, status, spent, limit) ==
    [kind |-> kind, id |-> expense_id, status |-> status, spent |-> spent, limit |-> limit]
Success == V2Result("success", 0, "", 0, 0)
SuccessId(expense_id) == V2Result("success", expense_id, "", 0, 0)
Failure == V2Result("failure", 0, "", 0, 0)
Status(status, spent, limit) == V2Result("status", 0, status, spent, limit)
V2Raised(exception) == V2Result("raised", 0, exception, 0, 0)

V2Call(op, amount, category, date, description, limit, result) ==
    [op |-> op, expense_id |-> 0, amount |-> amount, category |-> category,
     date |-> date, description |-> description, limit |-> limit,
     result |-> result]

\* a call that names a record
V2CallOn(expense_id, call) == [call EXCEPT !.expense_id = expense_id]

NoV2Call == V2Call("init", NoAmount, None, DatetimeArg(0), None, NoAmount, Failure)

\* an item of the table: an attribute it lacks is NoAmount, None or
\* NoDateArg; the amount and the date are kept as they were handed over
Item(amount, category, date, description) ==
    [amount |-> amount, category |-> category, date |-> date,
     description |-> description]

\* a call on the tracker with a table: the outcome, the ids of the items a
\* read returns, how often the table was called, and whether the table
\* answered or raised
DbCall(op, expense_id, updated_expense, result, items, calls, store_ok) ==
    [op |-> op, expense_id |-> expense_id, updated_expense |-> updated_expense,
     result |-> result, items |-> items, calls |-> calls, store_ok |-> store_ok]

NoDbCall ==
    DbCall("init", 0, Item(NoAmount, None, NoDateArg, None), Failure, {}, 0, TRUE)

\* ------------------------------------------------------------------------
\* BudgetTracker
\* ------------------------------------------------------------------------

\* add_expense, were the record appended before the category is validated
add_expense_append_first(exps, fresh, amount, category, date, description) ==
    IF ~AmountParses(amount) THEN
        [expenses |-> exps, result |-> Raised]
    ELSE
        LET expense == Expense(ToDecimal(amount), category, date, description, fresh)
        IN  IF category = "" \/ category = None
            THEN [expenses |-> Append(exps, expense), result |-> Raised]
            ELSE [expenses |-> Append(exps, expense), result |-> ReturnedExpense(expense)]

\* add_expense, were the description not handed on to the Expense
add_expense_drop_description(exps, fresh, amount, category, date, description) ==
    IF ~AmountParses(amount) THEN
        [expenses |-> exps, result |-> Raised]
    ELSE IF category = "" \/ category = None THEN
        [expenses |-> exps, result |-> Raised]
    ELSE
        LET expense == Expense(ToDecimal(amount), category, date, "", fresh)
        IN  [expenses |-> Append(exps, expense), result |-> ReturnedExpense(expense)]

\* add_expense, were the record inserted at the head of the list
add_expense_prepend(exps, fresh, amount, category, date, description) ==
    IF ~AmountParses(amount) THEN
        [expenses |-> exps, result |-> Raised]
    ELSE IF category = "" \/ category = None THEN
        [expenses |-> exps, result |-> Raised]
    ELSE
        LET expense == Expense(ToDecimal(amount), category, date, description, fresh)
        IN  [expenses |-> <<expense>> \o exps, result |-> ReturnedExpense(expense)]

\* add_expense: validate the amount, then the category, then append
add_expense(exps, fresh, amount, category, date, description) ==
    IF ~AmountParses(amount) THEN
        [expenses |-> exps, result |-> Raised]
    ELSE IF category = "" \/ category = None THEN
        [expenses |-> exps, result |-> Raised]
    ELSE
        LET expense == Expense(ToDecimal(amount), category, date, description, fresh)
        IN  [expenses |-> Append(exps, expense), result |-> ReturnedExpense(expense)]

\* "for expense in self._expenses: if expense.id == expense_id": the index
\* of the first record with that id, 0 when the loop finds none
FindExpense(exps, expense_id) ==
    IF \E i \in 1..Len(exps) : exps[i].id = expense_id
    THEN CHOOSE i \in 1..Len(exps) :
            /\ exps[i].id = expense_id
            /\ \A j \in 1..(i - 1) : exps[j].id # expense_id
    ELSE 0

\* "expense.amount = amount", when an amount is supplied
WriteAmount(e, amount) ==
    IF amount # NoAmount THEN [e EXCEPT !.amount = ToDecimal(amount)] ELSE e

\* "expense.category = category", when a category is supplied
WriteCategory(e, category) ==
    IF category # None THEN [e EXCEPT !.category = category] ELSE e

\* "expense.date = date", were it written without the test for None
WriteDate_unconditional(e, date) ==
    [e EXCEPT !.date = date]

\* "expense.date = date", when a date is supplied
WriteDate(e, date) ==
    IF date # NoDate THEN [e EXCEPT !.date = date] ELSE e

\* "expense.description = description", when a description is supplied
WriteDescription(e, description) ==
    IF description # None THEN [e EXCEPT !.description = description] ELSE e

\* update_expense, were the category written without the test for emptiness
update_expense_category_unchecked(exps, expense_id, amount, category, date, description) ==
    LET i == FindExpense(exps, expense_id)
    IN  IF i = 0 THEN [expenses |-> exps, result |-> Returned("None")]
        ELSE IF amount # NoAmount /\ ~AmountParses(amount) THEN
            [expenses |-> exps, result |-> Raised]
        ELSE
            LET e4 == WriteDescription(WriteDate(WriteCategory(
                          WriteAmount(exps[i], amount), category), date), description)
            IN  [expenses |-> [exps EXCEPT ![i] = e4], result |-> ReturnedExpense(e4)]

\* update_expense, were the arguments validated before the record is looked up
update_expense_validate_first(exps, expense_id, amount, category, date, description) ==
    LET i == FindExpense(exps, expense_id)
    IN  IF amount # NoAmount /\ ~AmountParses(amount) THEN
            [expenses |-> exps, result |-> Raised]
        ELSE IF category # None /\ category = "" THEN
            [expenses |-> exps, result |-> Raised]
        ELSE IF i = 0 THEN [expenses |-> exps, result |-> Returned("None")]
        ELSE
            LET e4 == WriteDescription(WriteDate(WriteCategory(
                          WriteAmount(exps[i], amount), category), date), description)
            IN  [expenses |-> [exps EXCEPT ![i] = e4], result |-> ReturnedExpense(e4)]

\* update_expense: the loop stops at the first record with that id; its
\* fields are written one by one, in the order amount, category, date,
\* description, each right after its own validation, so that a raise leaves
\* the fields written before it in place
update_expense(exps, expense_id, amount, category, date, description) ==
    LET i == FindExpense(exps, expense_id)
    IN  IF i = 0 THEN [expenses |-> exps, result |-> Returned("None")]
        ELSE IF amount # NoAmount /\ ~AmountParses(amount) THEN
            [expenses |-> exps, result |-> Raised]
        ELSE
            LET e1 == WriteAmount(exps[i], amount)
            IN  IF category # None /\ category = "" THEN
                    [expenses |-> [exps EXCEPT ![i] = e1], result |-> Raised]
                ELSE
                    LET e4 == WriteDescription(WriteDate(
                                  WriteCategory(e1, category), date), description)
                    IN  [expenses |-> [exps EXCEPT ![i] = e4],
                         result |-> ReturnedExpense(e4)]

\* del self._expenses[i]
RemoveAt(exps, i) ==
    SubSeq(exps, 1, i - 1) \o SubSeq(exps, i + 1, Len(exps))

\* delete_expense, were the record found but the del forgotten
delete_expense_no_removal(exps, expense_id) ==
    LET i == FindExpense(exps, expense_id)
    IN  IF i = 0 THEN [expenses |-> exps, result |-> Returned("False")]
        ELSE [expenses |-> exps, result |-> Returned("True")]

\* delete_expense, were the list cut at the record found
\* ("del self._expenses[i:]")
delete_expense_truncating(exps, expense_id) ==
    LET i == FindExpense(exps, expense_id)
    IN  IF i = 0 THEN [expenses |-> exps, result |-> Returned("False")]
        ELSE [expenses |-> SubSeq(exps, 1, i - 1), result |-> Returned("True")]

\* delete_expense: remove the first record with that id
delete_expense(exps, expense_id) ==
    LET i == FindExpense(exps, expense_id)
    IN  IF i = 0 THEN [expenses |-> exps, result |-> Returned("False")]
        ELSE [expenses |-> RemoveAt(exps, i), result |-> Returned("True")]

\* the loop of get_expenses, were the bounds compared with <= and >=
RECURSIVE FilterByDate_exclusive(_, _, _)
FilterByDate_exclusive(exps, start_date, end_date) ==
    IF Len(exps) = 0 THEN <<>>
    ELSE LET expense == Head(exps)
             rest == FilterByDate_exclusive(Tail(exps), start_date, end_date)
         IN  IF start_date # NoDate /\ expense.date <= start_date THEN rest
             ELSE IF end_date # NoDate /\ expense.date >= end_date THEN rest
             ELSE <<expense>> \o rest

\* the loop of get_expenses: a record is skipped when a bound is given and
\* the record lies outside it
RECURSIVE FilterByDate(_, _, _)
FilterByDate(exps, start_date, end_date) ==
    IF Len(exps) = 0 THEN <<>>
    ELSE LET expense == Head(exps)
             rest == FilterByDate(Tail(exps), start_date, end_date)
         IN  IF start_date # NoDate /\ expense.date < start_date THEN rest
             ELSE IF end_date # NoDate /\ expense.date > end_date THEN rest
             ELSE <<expense>> \o rest

\* get_expenses: a copy of the list, or the filtered list
get_expenses(exps, start_date, end_date) ==
    IF start_date = NoDate /\ end_date = NoDate THEN exps
    ELSE FilterByDate(exps, start_date, end_date)

\* "food" for "Food": what str.lower() makes of a category
Lower(category) ==
    CASE category = "Food" -> "food"
      [] category = "Rent" -> "rent"
      [] OTHER -> category

\* get_expenses_by_category, were the categories compared without regard to case
RECURSIVE get_expenses_by_category_casefold(_, _)
get_expenses_by_category_casefold(exps, category) ==
    IF Len(exps) = 0 THEN <<>>
    ELSE LET expense == Head(exps)
             rest == get_expenses_by_category_casefold(Tail(exps), category)
         IN  IF Lower(expense.category) = Lower(category)
             THEN <<expense>> \o rest ELSE rest

\* get_expenses_by_category: "[expense for expense in self._expenses
\* if expense.category == category]"
RECURSIVE get_expenses_by_category(_, _)
get_expenses_by_category(exps, category) ==
    IF Len(exps) = 0 THEN <<>>
    ELSE LET expense == Head(exps)
             rest == get_expenses_by_category(Tail(exps), category)
         IN  IF expense.category = category THEN <<expense>> \o rest ELSE rest

\* the loop of get_category_summary: a category enters the dictionary with
\* Decimal('0') at its first record, and every record adds its amount
RECURSIVE SummaryLoop(_, _)
SummaryLoop(exps, summary) ==
    IF Len(exps) = 0 THEN summary
    ELSE LET expense == Head(exps)
             entered == [c \in (DOMAIN summary) \cup {expense.category} |->
                            IF c \in DOMAIN summary THEN summary[c] ELSE 0]
         IN  SummaryLoop(Tail(exps),
                 [entered EXCEPT ![expense.category] = @ + expense.amount])

\* the loop, were "summary[category] = amount" written for "+="
RECURSIVE SummaryLoop_overwrite(_, _)
SummaryLoop_overwrite(exps, summary) ==
    IF Len(exps) = 0 THEN summary
    ELSE LET expense == Head(exps)
         IN  SummaryLoop_overwrite(Tail(exps),
                 [c \in (DOMAIN summary) \cup {expense.category} |->
                     IF c = expense.category THEN expense.amount ELSE summary[c]])

\* get_category_summary, were every known category entered with zero first
get_category_summary_zero_filled(exps, start_date, end_date) ==
    SummaryLoop(get_expenses(exps, start_date, end_date), [c \in Categories |-> 0])

\* get_category_summary, with the overwriting loop
get_category_summary_overwrite(exps, start_date, end_date) ==
    SummaryLoop_overwrite(get_expenses(exps, start_date, end_date), <<>>)

\* get_category_summary: the loop over get_expenses(start_date, end_date),
\* from the empty dictionary
get_category_summary(exps, start_date, end_date) ==
    SummaryLoop(get_expenses(exps, start_date, end_date), <<>>)

\* sum(expense.amount for expense in expenses): 0 for no record
RECURSIVE SumAmounts(_)
SumAmounts(exps) ==
    IF Len(exps) = 0 THEN 0 ELSE Head(exps).amount + SumAmounts(Tail(exps))

\* get_total_expenses, were the bounds not handed on to get_expenses
get_total_expenses_unfiltered(exps, start_date, end_date) ==
    SumAmounts(get_expenses(exps, NoDate, NoDate))

\* get_total_expenses: the sum over get_expenses(start_date, end_date)
get_total_expenses(exps, start_date, end_date) ==
    SumAmounts(get_expenses(exps, start_date, end_date))

\* ------------------------------------------------------------------------
\* Operations of the ledger, as steps
\* ------------------------------------------------------------------------

Init ==
    /\ expenses = <<>>
    /\ nextId = 1
    /\ last = NoCall
    /\ v2_expenses = <<>>
    /\ budget_limits = <<>>
    /\ v2_last = NoV2Call
    /\ http_last = NoRequest
    /\ db_table = <<>>
    /\ db_last = NoDbCall
    /\ store_failed = FALSE
    /\ threads = [t \in Threads |-> IdleFrame]

AddExpense ==
    \E amount \in AmountArgs, category \in CategoryArgs,
       date \in Dates, description \in Descriptions :
        LET r == add_expense(expenses, nextId, amount, category, date, description)
            created == r.result.kind = "expense"
        IN  /\ last = NoCall
            /\ created => nextId <= MaxIds
            /\ expenses' = r.expenses
            /\ nextId' = IF created THEN nextId + 1 ELSE nextId
            /\ last' = Call("add", 0, amount, category, date, description,
                            NoDate, NoDate, r.result)
            /\ UNCHANGED <<v2vars, appvars>>

UpdateExpense ==
    \E expense_id \in Ids, amount \in AmountArgs, category \in CategoryArgs,
       date \in DateArgs, description \in DescriptionArgs :
        LET r == update_expense(expenses, expense_id, amount, category, date, description)
        IN  /\ last = NoCall
            /\ expenses' = r.expenses
            /\ last' = Call("update", expense_id, amount, category, date, description,
                            NoDate, NoDate, r.result)
            /\ UNCHANGED <<nextId, v2vars, appvars>>

DeleteExpense ==
    \E expense_id \in Ids :
        LET r == delete_expense(expenses, expense_id)
        IN  /\ last = NoCall
            /\ expenses' = r.expenses
            /\ last' = Call("delete", expense_id, NoAmount, None, NoDate, None,
                            NoDate, NoDate, r.result)
            /\ UNCHANGED <<nextId, v2vars, appvars>>

GetExpenses ==
    \E start_date \in DateArgs, end_date \in DateArgs :
        /\ last = NoCall
        /\ last' = Call("get", 0, NoAmount, None, NoDate, None, start_date, end_date,
                        ReturnedList(get_expenses(expenses, start_date, end_date)))
        /\ UNCHANGED <<expenses, nextId, v2vars, appvars>>

\* the category asked for: one in use, or one in use written in lower case
CategoryQueries == Categories \cup {"food"}

GetExpensesByCategory ==
    \E category \in CategoryQueries :
        /\ last = NoCall
        /\ last' = Call("by_category", 0, NoAmount, category, NoDate, None, NoDate, NoDate,
                        ReturnedList(get_expenses_by_category(expenses, category)))
        /\ UNCHANGED <<expenses, nextId, v2vars, appvars>>

\* a summary step, were the list sorted in place on the way
\* ("self._expenses.reverse()")
GetCategorySummary_reordering ==
    \E start_date \in DateArgs, end_date \in DateArgs :
        /\ last = NoCall
        /\ last' = Call("summary", 0, NoAmount, None, NoDate, None, start_date, end_date,
                        ReturnedSummary(get_category_summary(expenses, start_date, end_date)))
        /\ expenses' = [i \in 1..Len(expenses) |-> expenses[Len(expenses) + 1 - i]]
        /\ UNCHANGED <<nextId, v2vars, appvars>>

GetCategorySummary ==
    \E start_date \in DateArgs, end_date \in DateArgs :
        /\ last = NoCall
        /\ last' = Call("summary", 0, NoAmount, None, NoDate, None, start_date, end_date,
                        ReturnedSummary(get_category_summary(expenses, start_date, end_date)))
        /\ UNCHANGED <<expenses, nextId, v2vars, appvars>>

GetTotalExpenses ==
    \E start_date \in DateArgs, end_date \in DateArgs :
        /\ last = NoCall
        /\ last' = Call("total", 0, NoAmount, None, NoDate, None, start_date, end_date,
                        ReturnedTotal(get_total_expenses(expenses, start_date, end_date)))
        /\ UNCHANGED <<expenses, nextId, v2vars, appvars>>

\* the caller has taken the outcome of the call; the tracker is idle again
Return ==
    /\ last # NoCall
    /\ last' = NoCall
    /\ UNCHANGED <<expenses, nextId, v2vars, appvars>>

Next ==
    \/ AddExpense
    \/ UpdateExpense
    \/ DeleteExpense
    \/ GetExpenses
    \/ GetExpensesByCategory
    \/ GetCategorySummary
    \/ GetTotalExpenses
    \/ Return

Spec == Init /\ [][Next]_vars

\* ------------------------------------------------------------------------
\* BudgetTrackerV2 without a table: records and limits are kept in memory
\* ------------------------------------------------------------------------

\* datetime.strptime(text, '%Y-%m-%d'): the day the text denotes, NoDate
\* when strptime raises ValueError
ParseDate(text) ==
    CASE text = "2025-04-01" -> 1
      [] text = "2025-04-02" -> 2
      [] OTHER -> NoDate

\* the datetime add_expense ends up with: the argument itself, or the parsed
\* string; NoDate when strptime raises
V2Date(date) ==
    IF date.kind = "str" THEN ParseDate(date.text) ELSE date.day

\* add_expense, in memory: any exception raised on the way (strptime,
\* Decimal) is caught and reported as success False
v2_add_expense(exps, fresh, amount, category, date, description) ==
    IF V2Date(date) = NoDate THEN [expenses |-> exps, result |-> Failure]
    ELSE IF ~AmountParses(amount) THEN [expenses |-> exps, result |-> Failure]
    ELSE IF category = "" \/ category = None THEN [expenses |-> exps, result |-> Failure]
    ELSE
        LET expense_obj == Expense(ToDecimal(amount), category, V2Date(date),
                                   description, fresh)
        IN  [expenses |-> Append(exps, expense_obj), result |-> SuccessId(fresh)]

\* the dictionary updated_expense: a key it lacks is NoAmount, None or
\* NoDateArg
Fields(amount, category, date, description) ==
    [amount |-> amount, category |-> category, date |-> date,
     description |-> description]

\* update_expense, in memory: the fields are converted and written one
\* after the other, "expense.category = updated_expense['category']"
\* without a test; an exception on the way (Decimal, strptime) is caught and
\* reported as success False, with the fields written before it kept
v2_update_expense(exps, expense_id, updated_expense) ==
    LET i == FindExpense(exps, expense_id)
    IN  IF i = 0 THEN [expenses |-> exps, result |-> Failure]
        ELSE IF updated_expense.amount # NoAmount
                /\ ~AmountParses(updated_expense.amount) THEN
            [expenses |-> exps, result |-> Failure]
        ELSE
            LET e1 == IF updated_expense.amount = NoAmount THEN exps[i]
                      ELSE [exps[i] EXCEPT !.amount = ToDecimal(updated_expense.amount)]
                e2 == IF updated_expense.category = None THEN e1
                      ELSE [e1 EXCEPT !.category = updated_expense.category]
            IN  IF updated_expense.date # NoDateArg
                   /\ V2Date(updated_expense.date) = NoDate THEN
                    [expenses |-> [exps EXCEPT ![i] = e2], result |-> Failure]
                ELSE
                    LET e3 == IF updated_expense.date = NoDateArg THEN e2
                              ELSE [e2 EXCEPT !.date = V2Date(updated_expense.date)]
                        e4 == IF updated_expense.description = None THEN e3
                              ELSE [e3 EXCEPT !.description =
                                        updated_expense.description]
                    IN  [expenses |-> [exps EXCEPT ![i] = e4], result |-> Success]

\* delete_expense, in memory: remove the first record with that id
v2_delete_expense(exps, expense_id) ==
    LET i == FindExpense(exps, expense_id)
    IN  IF i = 0 THEN [expenses |-> exps, result |-> Failure]
        ELSE [expenses |-> RemoveAt(exps, i), result |-> Success]

\* get_expenses_by_category, in memory: the records of that category, in
\* the order of the list
v2_get_expenses_by_category(exps, category) ==
    SelectSeq(exps, LAMBDA expense : expense.category = category)

\* "self._budget_limits = {category: limit}": the mapping replaced, not updated
PutLimit_replace_all(limits, category, limit) ==
    [c \in {category} |-> limit]

\* self._budget_limits[category] = limit
PutLimit(limits, category, limit) ==
    [c \in (DOMAIN limits) \cup {category} |->
        IF c = category THEN limit ELSE limits[c]]

\* set_budget_limit, in memory: a limit that does not parse is reported as
\* success False
set_budget_limit(limits, category, limit) ==
    IF ~AmountParses(limit) THEN [limits |-> limits, result |-> Failure]
    ELSE [limits |-> PutLimit(limits, category, ToDecimal(limit)), result |-> Success]

\* "total_spent += expense.amount" over the records
RECURSIVE TotalSpent(_)
TotalSpent(exps) ==
    IF Len(exps) = 0 THEN 0 ELSE Head(exps).amount + TotalSpent(Tail(exps))

\* the comparison, were it written with > in place of >=
PercentageAtLeast_strict(total_spent, limit, p) ==
    IF limit > 0 THEN 100 * total_spent > p * limit
    ELSE 100 * total_spent < p * limit

\* "(total_spent / limit) * 100 >= p", for a limit other than zero; the
\* quotient of two small integers is compared exactly
PercentageAtLeast(total_spent, limit, p) ==
    IF limit > 0 THEN 100 * total_spent >= p * limit
    ELSE 100 * total_spent <= p * limit

\* check_budget_status, were a missing limit read as zero
\* ("self._budget_limits.get(category, 0)")
check_budget_status_default_zero(exps, limits, category) ==
    LET limit == IF category \in DOMAIN limits THEN limits[category] ELSE 0
        total_spent == TotalSpent(v2_get_expenses_by_category(exps, category))
    IN  IF limit = 0 THEN
            IF total_spent = 0 THEN V2Raised("InvalidOperation")
            ELSE V2Raised("DivisionByZero")
        ELSE IF PercentageAtLeast(total_spent, limit, 100) THEN
            Status("over_limit", total_spent, limit)
        ELSE IF PercentageAtLeast(total_spent, limit, 80) THEN
            Status("near_limit", total_spent, limit)
        ELSE Status("under_limit", total_spent, limit)

\* check_budget_status: no_limit without a limit; otherwise the division,
\* which Decimal refuses for a zero limit (DivisionByZero, and
\* InvalidOperation for 0 / 0), and the three-way classification
check_budget_status(exps, limits, category) ==
    IF category \notin DOMAIN limits THEN Status("no_limit", 0, 0)
    ELSE
        LET limit == limits[category]
            total_spent == TotalSpent(v2_get_expenses_by_category(exps, category))
        IN  IF limit = 0 THEN
                IF total_spent = 0 THEN V2Raised("InvalidOperation")
                ELSE V2Raised("DivisionByZero")
            ELSE IF PercentageAtLeast(total_spent, limit, 100) THEN
                Status("over_limit", total_spent, limit)
            ELSE IF PercentageAtLeast(total_spent, limit, 80) THEN
                Status("near_limit", total_spent, limit)
            ELSE Status("under_limit", total_spent, limit)

\* ------------------------------------------------------------------------
\* BudgetTrackerV2 with a table: every record is an item of the table
\* ------------------------------------------------------------------------

\* date.strftime('%Y-%m-%d')
Strftime(day) ==
    CASE day = 1 -> "2025-04-01"
      [] day = 2 -> "2025-04-02"

\* the outcome of a call on the tracker with a table
DbOutcome(table, result, items, calls) ==
    [table |-> table, result |-> result, items |-> items, calls |-> calls]

\* table.put_item(Item=item): the item with that key is created or replaced
PutItem(table, expense_id, item) ==
    [k \in (DOMAIN table) \cup {expense_id} |->
        IF k = expense_id THEN item ELSE table[k]]

\* table.update_item(Key, "SET #a = :a, ..."): the attributes named are set
\* on the item with that key; the table creates the item when it has none
UpdateItem(table, expense_id, updated_expense) ==
    LET old == IF expense_id \in DOMAIN table THEN table[expense_id]
               ELSE Item(NoAmount, None, NoDateArg, None)
        new == Item(IF updated_expense.amount = NoAmount THEN old.amount
                    ELSE updated_expense.amount,
                    IF updated_expense.category = None THEN old.category
                    ELSE updated_expense.category,
                    IF updated_expense.date = NoDateArg THEN old.date
                    ELSE updated_expense.date,
                    IF updated_expense.description = None THEN old.description
                    ELSE updated_expense.description)
    IN  PutItem(table, expense_id, new)

\* table.delete_item(Key): the item with that key is removed if there is one
DeleteItem(table, expense_id) ==
    [k \in (DOMAIN table) \ {expense_id} |-> table[k]]

\* add_expense with a table: the validation of the in-memory variant, then
\* one put_item; an exception of the table is caught like any other
db_add_expense(table, fresh, amount, category, date, description, store_ok) ==
    IF V2Date(date) = NoDate THEN DbOutcome(table, Failure, {}, 0)
    ELSE IF ~AmountParses(amount) THEN DbOutcome(table, Failure, {}, 0)
    ELSE IF category = "" \/ category = None THEN DbOutcome(table, Failure, {}, 0)
    ELSE IF ~store_ok THEN DbOutcome(table, Failure, {}, 1)
    ELSE
        LET expense_dict == Item(DecAmount(ToDecimal(amount)), category,
                                 StrDateArg(Strftime(V2Date(date))), description)
        IN  DbOutcome(PutItem(table, fresh, expense_dict), SuccessId(fresh), {}, 1)

\* update_expense with a table, were the item looked up first (one more
\* call of the table) and a missing one reported
db_update_expense_lookup(table, expense_id, updated_expense, store_ok) ==
    IF updated_expense = Item(NoAmount, None, NoDateArg, None) THEN
        DbOutcome(table, Failure, {}, 0)
    ELSE IF ~store_ok THEN DbOutcome(table, Failure, {}, 1)
    ELSE IF expense_id \notin DOMAIN table THEN DbOutcome(table, Failure, {}, 1)
    ELSE DbOutcome(UpdateItem(table, expense_id, updated_expense), Success, {}, 2)

\* update_expense with a table: no field is validated and the item is not
\* looked up; the keys of the dictionary become one update_item
db_update_expense(table, expense_id, updated_expense, store_ok) ==
    IF updated_expense = Item(NoAmount, None, NoDateArg, None) THEN
        DbOutcome(table, Failure, {}, 0)
    ELSE IF ~store_ok THEN DbOutcome(table, Failure, {}, 1)
    ELSE DbOutcome(UpdateItem(table, expense_id, updated_expense), Success, {}, 1)

\* delete_expense with a table: one delete_item, success True whenever the
\* table does not raise
db_delete_expense(table, expense_id, store_ok) ==
    IF ~store_ok THEN DbOutcome(table, Failure, {}, 1)
    ELSE DbOutcome(DeleteItem(table, expense_id), Success, {}, 1)

\* the date of an item parses: "datetime.strptime(expense['date'], ...)"
\* raises KeyError without the attribute and ValueError on another format
ItemDate(item) ==
    IF item.date.kind = "str" THEN ParseDate(item.date.text) ELSE NoDate

\* get_expenses with a table: one scan, then the date filter over the items;
\* nothing catches an exception of the table or of strptime
db_get_expenses(table, start_date, end_date, store_ok) ==
    IF ~store_ok THEN DbOutcome(table, V2Raised("ClientError"), {}, 1)
    ELSE IF start_date = NoDate /\ end_date = NoDate THEN
        DbOutcome(table, Success, DOMAIN table, 1)
    ELSE IF \E k \in DOMAIN table : ItemDate(table[k]) = NoDate THEN
        DbOutcome(table, V2Raised("ValueError"), {}, 1)
    ELSE
        DbOutcome(table, Success,
                  {k \in DOMAIN table :
                      /\ ~(start_date # NoDate /\ ItemDate(table[k]) < start_date)
                      /\ ~(end_date # NoDate /\ ItemDate(table[k]) > end_date)},
                  1)

\* get_expenses_by_category with a table: get_expenses(), then
\* "expense['category'] == category", a KeyError without the attribute
db_get_expenses_by_category(table, category, store_ok) ==
    LET expenses_ == db_get_expenses(table, NoDate, NoDate, store_ok)
    IN  IF expenses_.result # Success THEN expenses_
        ELSE IF \E k \in expenses_.items : table[k].category = None THEN
            DbOutcome(table, V2Raised("KeyError"), {}, expenses_.calls)
        ELSE DbOutcome(table, Success,
                       {k \in expenses_.items : table[k].category = category},
                       expenses_.calls)

\* what get_category_summary and get_total_expenses answer: the mapping and
\* the sum, or the exception that leaves them
Totals(kind, summary, total) == [kind |-> kind, summary |-> summary, total |-> total]

\* "if category not in summary: summary[category] = Decimal('0')" and
\* "summary[category] += amount" over the records in memory
RECURSIVE V2SummaryLoop(_, _)
V2SummaryLoop(exps, summary) ==
    IF Len(exps) = 0 THEN summary
    ELSE LET expense == Head(exps)
             before == IF expense.category \in DOMAIN summary
                       THEN summary[expense.category] ELSE 0
         IN  V2SummaryLoop(Tail(exps),
                 [c \in (DOMAIN summary) \cup {expense.category} |->
                     IF c = expense.category THEN before + expense.amount
                     ELSE summary[c]])

\* get_category_summary() and get_total_expenses() in memory
v2_totals(exps) == Totals("returned", V2SummaryLoop(exps, <<>>), TotalSpent(exps))

\* "total += Decimal(str(expense['amount']))" over the items with these keys
RECURSIVE SumItems(_, _)
SumItems(table, keys) ==
    IF keys = {} THEN 0
    ELSE LET k == CHOOSE k \in keys : TRUE
         IN  ToDecimal(table[k].amount) + SumItems(table, keys \ {k})

\* get_category_summary() and get_total_expenses() with a table: both read
\* expense['category'] or expense['amount'] of every item scanned and convert
\* the amount, so an item without the attribute or with an amount that
\* denotes no number makes them raise
db_totals(table) ==
    IF \E k \in DOMAIN table :
          \/ table[k].category = None
          \/ table[k].amount = NoAmount
          \/ ~AmountParses(table[k].amount)
    THEN Totals("raised", <<>>, 0)
    ELSE Totals("returned",
                [c \in {table[k].category : k \in DOMAIN table} |->
                    SumItems(table, {k \in DOMAIN table : table[k].category = c})],
                SumItems(table, DOMAIN table))

\* ------------------------------------------------------------------------
\* Operations of BudgetTrackerV2, as steps
\* ------------------------------------------------------------------------

\* 4 and "010" denote numbers, "x" does not
V2AmountArgs == {DecAmount(4), StrAmount(<<"0", "1", "0">>), StrAmount(<<"x">>)}

\* 0, "010" and "-5" denote numbers, "x" does not
LimitArgs ==
    {DecAmount(0), StrAmount(<<"0", "1", "0">>), StrAmount(<<"-", "5">>),
     StrAmount(<<"x">>)}

V2DateArgs == {DatetimeArg(1), StrDateArg("2025-04-02"), StrDateArg("04/02/2025")}

V2AddExpense ==
    \E amount \in V2AmountArgs, category \in Categories \cup {""},
       date \in V2DateArgs, description \in Descriptions :
        LET r == v2_add_expense(v2_expenses, nextId, amount, category, date, description)
            created == r.result.kind = "success"
        IN  /\ v2_last = NoV2Call
            /\ created => nextId <= MaxIds
            /\ v2_expenses' = r.expenses
            /\ nextId' = IF created THEN nextId + 1 ELSE nextId
            /\ v2_last' = V2Call("add", amount, category, date, description,
                                 NoAmount, r.result)
            /\ UNCHANGED <<budget_limits, v1vars, appvars, dbvars>>

SetBudgetLimit ==
    \E category \in Categories, limit \in LimitArgs :
        LET r == set_budget_limit(budget_limits, category, limit)
        IN  /\ v2_last = NoV2Call
            /\ budget_limits' = r.limits
            /\ v2_last' = V2Call("set_limit", NoAmount, category, DatetimeArg(0), None,
                                 limit, r.result)
            /\ UNCHANGED <<v2_expenses, nextId, v1vars, appvars, dbvars>>

CheckBudgetStatus ==
    \E category \in Categories :
        /\ v2_last = NoV2Call
        /\ v2_last' = V2Call("check", NoAmount, category, DatetimeArg(0), None, NoAmount,
                             check_budget_status(v2_expenses, budget_limits, category))
        /\ UNCHANGED <<v2_expenses, budget_limits, nextId, v1vars, appvars, dbvars>>

\* the caller has taken the outcome of the call; the tracker is idle again
V2Return ==
    /\ v2_last # NoV2Call
    /\ v2_last' = NoV2Call
    /\ UNCHANGED <<v2_expenses, budget_limits, nextId, v1vars, appvars, dbvars>>

NextV2 ==
    \/ V2AddExpense
    \/ SetBudgetLimit
    \/ CheckBudgetStatus
    \/ V2Return

SpecV2 == Init /\ [][NextV2]_vars

\* the dictionaries handed to update_expense: "010" denotes ten, "x" no
\* number; "2025-04-02" is a date strptime parses, "04/02/2025" is not
V2UpdateArgs ==
    {Fields(amount, category, date, description) :
        amount \in {NoAmount, StrAmount(<<"0", "1", "0">>), StrAmount(<<"x">>)},
        category \in {None, "", "Rent"},
        date \in {NoDateArg, StrDateArg("2025-04-02"), StrDateArg("04/02/2025")},
        description \in {None, "lunch"}}

V2UpdateExpense ==
    \E expense_id \in Ids, updated_expense \in V2UpdateArgs :
        LET r == v2_update_expense(v2_expenses, expense_id, updated_expense)
        IN  /\ v2_last = NoV2Call
            /\ v2_expenses' = r.expenses
            /\ v2_last' = V2CallOn(expense_id,
                              V2Call("update", updated_expense.amount,
                                     updated_expense.category, updated_expense.date,
                                     updated_expense.description, NoAmount, r.result))
            /\ UNCHANGED <<budget_limits, nextId, v1vars, appvars, dbvars>>

V2DeleteExpense ==
    \E expense_id \in Ids :
        LET r == v2_delete_expense(v2_expenses, expense_id)
        IN  /\ v2_last = NoV2Call
            /\ v2_expenses' = r.expenses
            /\ v2_last' = V2CallOn(expense_id,
                              V2Call("delete", NoAmount, None, NoDateArg, None,
                                     NoAmount, r.result))
            /\ UNCHANGED <<budget_limits, nextId, v1vars, appvars, dbvars>>

\* the record operations of a BudgetTrackerV2 without a table
NextV2Ledger ==
    \/ V2AddExpense
    \/ V2UpdateExpense
    \/ V2DeleteExpense
    \/ V2Return

SpecV2Ledger == Init /\ [][NextV2Ledger]_vars

\* two trackers, one without and one with a table, are handed the same
\* calls; uuid4 is stubbed so that both hand out the same ids

\* 4 denotes a number, "x" does not; "2025-04-02" is a date strptime parses,
\* "04/02/2025" is not
BothAddArgs ==
    {Fields(amount, category, date, "") :
        amount \in {DecAmount(4), StrAmount(<<"x">>)},
        category \in {"Food", ""},
        date \in {StrDateArg("2025-04-02"), StrDateArg("04/02/2025")}}

BothUpdateArgs ==
    {Fields(amount, category, NoDateArg, None) :
        amount \in {NoAmount, StrAmount(<<"0", "1", "0">>), StrAmount(<<"x">>)},
        category \in {None, "Rent"}}

\* the call on the tracker with a table, as db_last records it
Recorded(op, expense_id, updated_expense, r, store_ok) ==
    DbCall(op, expense_id, updated_expense, r.result, r.items, r.calls,
           store_ok \/ r.calls = 0)

BothAddExpense ==
    \E expense_data \in BothAddArgs, store_ok \in BOOLEAN :
        LET m == v2_add_expense(v2_expenses, nextId, expense_data.amount,
                                expense_data.category, expense_data.date,
                                expense_data.description)
            r == db_add_expense(db_table, nextId, expense_data.amount,
                                expense_data.category, expense_data.date,
                                expense_data.description, store_ok)
            created == m.result.kind = "success" \/ r.result.kind = "success"
        IN  /\ v2_last = NoV2Call
            /\ db_last = NoDbCall
            /\ created => nextId <= MaxIds
            /\ nextId' = IF created THEN nextId + 1 ELSE nextId
            /\ v2_expenses' = m.expenses
            /\ v2_last' = V2Call("add", expense_data.amount, expense_data.category,
                                 expense_data.date, expense_data.description,
                                 NoAmount, m.result)
            /\ db_table' = r.table
            /\ db_last' = Recorded("add", 0, expense_data, r, store_ok)
            /\ store_failed' = (store_failed \/ (r.calls > 0 /\ ~store_ok))
            /\ UNCHANGED <<budget_limits, v1vars, appvars>>

BothUpdateExpense ==
    \E expense_id \in Ids, updated_expense \in BothUpdateArgs, store_ok \in BOOLEAN :
        LET m == v2_update_expense(v2_expenses, expense_id, updated_expense)
            r == db_update_expense(db_table, expense_id, updated_expense, store_ok)
        IN  /\ v2_last = NoV2Call
            /\ db_last = NoDbCall
            /\ v2_expenses' = m.expenses
            /\ v2_last' = V2CallOn(expense_id,
                              V2Call("update", updated_expense.amount,
                                     updated_expense.category, updated_expense.date,
                                     updated_expense.description, NoAmount, m.result))
            /\ db_table' = r.table
            /\ db_last' = Recorded("update", expense_id, updated_expense, r, store_ok)
            /\ store_failed' = (store_failed \/ (r.calls > 0 /\ ~store_ok))
            /\ UNCHANGED <<budget_limits, nextId, v1vars, appvars>>

BothDeleteExpense ==
    \E expense_id \in Ids, store_ok \in BOOLEAN :
        LET m == v2_delete_expense(v2_expenses, expense_id)
            r == db_delete_expense(db_table, expense_id, store_ok)
        IN  /\ v2_last = NoV2Call
            /\ db_last = NoDbCall
            /\ v2_expenses' = m.expenses
            /\ v2_last' = V2CallOn(expense_id,
                              V2Call("delete", NoAmount, None, NoDateArg, None,
                                     NoAmount, m.result))
            /\ db_table' = r.table
            /\ db_last' = Recorded("delete", expense_id,
                                   Item(NoAmount, None, NoDateArg, None), r, store_ok)
            /\ store_failed' = (store_failed \/ (r.calls > 0 /\ ~store_ok))
            /\ UNCHANGED <<budget_limits, nextId, v1vars, appvars>>

\* a read of the tracker with a table
TableGetExpenses ==
    \E start_date \in DateArgs, end_date \in DateArgs, store_ok \in BOOLEAN :
        LET r == db_get_expenses(db_table, start_date, end_date, store_ok)
        IN  /\ v2_last = NoV2Call
            /\ db_last = NoDbCall
            /\ db_last' = Recorded("get", 0, Item(NoAmount, None, NoDateArg, None),
                                   r, store_ok)
            /\ store_failed' = (store_failed \/ (r.calls > 0 /\ ~store_ok))
            /\ UNCHANGED <<db_table, v2_expenses, v2_last, budget_limits, nextId,
                           v1vars, appvars>>

TableGetExpensesByCategory ==
    \E category \in Categories, store_ok \in BOOLEAN :
        LET r == db_get_expenses_by_category(db_table, category, store_ok)
        IN  /\ v2_last = NoV2Call
            /\ db_last = NoDbCall
            /\ db_last' = Recorded("by_category", 0,
                                   Item(NoAmount, category, NoDateArg, None),
                                   r, store_ok)
            /\ store_failed' = (store_failed \/ (r.calls > 0 /\ ~store_ok))
            /\ UNCHANGED <<db_table, v2_expenses, v2_last, budget_limits, nextId,
                           v1vars, appvars>>

\* the caller has taken the outcomes; both trackers are idle again
BothReturn ==
    /\ v2_last # NoV2Call \/ db_last # NoDbCall
    /\ v2_last' = NoV2Call
    /\ db_last' = NoDbCall
    /\ UNCHANGED <<db_table, store_failed, v2_expenses, budget_limits, nextId,
                   v1vars, appvars>>

NextTable ==
    \/ BothAddExpense
    \/ BothUpdateExpense
    \/ BothDeleteExpense
    \/ TableGetExpenses
    \/ TableGetExpensesByCategory
    \/ BothReturn

SpecTable == Init /\ [][NextTable]_vars

\* ------------------------------------------------------------------------
\* The Flask application, serving requests over the shared BudgetTracker
\* ------------------------------------------------------------------------

\* verify_token checks signature, expiry, audience and issuer against the
\* user pool and answers (True, claims) or (False, error): of the tokens
\* requests carry here, the pool issued "good" and "expired" has run out
ValidTokens == {"good"}

verify_token(token) == token \in ValidTokens

\* "if auth_header: if auth_header.startswith('Bearer '):
\*      token = auth_header.split(' ')[1]", None otherwise
BearerToken(auth_header) ==
    IF auth_header # NoHeader /\ Len(auth_header) >= 2 /\ auth_header[1] = "Bearer"
    THEN auth_header[2]
    ELSE None

\* token_required, were the token not handed to verify_token
token_required_unverified(auth_header) ==
    LET token == BearerToken(auth_header)
    IN  IF token = None \/ token = "" THEN FALSE
        ELSE TRUE

\* token_required: TRUE when the decorator calls the wrapped function,
\* FALSE when it answers 401 itself
token_required(auth_header) ==
    LET token == BearerToken(auth_header)
    IN  IF token = None \/ token = "" THEN FALSE
        ELSE verify_token(token)

\* datetime.fromisoformat and datetime.strptime(_, "%Y-%m-%d") on the date
\* texts requests carry: the day each one accepts, none for "yesterday"
FromIsoFormat == [date_str \in {"2025-04-01"} |-> 1]
Strptime == [date_str \in {"2025-04-01", "2025-4-2"} |->
                IF date_str = "2025-04-01" THEN 1 ELSE 2]

\* parse_date: NoDate stands for the ValueError it raises
parse_date(date_str) ==
    IF date_str \in DOMAIN FromIsoFormat THEN FromIsoFormat[date_str]
    ELSE IF date_str \in DOMAIN Strptime THEN Strptime[date_str]
    ELSE NoDate

Response(exps, status) == [expenses |-> exps, status |-> status]

\* the handler of POST /expense
app_add_expense(exps, fresh, data) ==
    IF data = NoBody THEN Response(exps, 400)
    ELSE IF data.amount = NoAmount \/ data.category = None \/ data.date = None THEN
        Response(exps, 400)
    ELSE
        LET date == parse_date(data.date)
        IN  IF date = NoDate THEN Response(exps, 400)
            ELSE
                LET r == add_expense(exps, fresh, data.amount, data.category, date,
                                     IF data.description = None THEN ""
                                     ELSE data.description)
                IN  IF r.result = Raised THEN Response(r.expenses, 400)
                    ELSE Response(r.expenses, 201)

\* the handler of PUT /expense/<expense_id>
app_update_expense(exps, expense_id, data) ==
    IF data = NoBody THEN Response(exps, 400)
    ELSE
        LET date == IF data.date = None THEN NoDate ELSE parse_date(data.date)
        IN  IF data.date # None /\ date = NoDate THEN Response(exps, 400)
            ELSE
                LET r == update_expense(exps, expense_id, data.amount,
                                        data.category, date, data.description)
                IN  IF r.result = Raised THEN Response(r.expenses, 400)
                    ELSE IF r.result = Returned("None") THEN Response(r.expenses, 404)
                    ELSE Response(r.expenses, 200)

\* the handler of DELETE /expense/<expense_id>
app_delete_expense(exps, expense_id) ==
    LET r == delete_expense(exps, expense_id)
    IN  IF r.result = Returned("True") THEN Response(r.expenses, 200)
        ELSE Response(r.expenses, 404)

\* the handlers of GET /expense, /balance and /summary: they parse the
\* date filters the query carries and read the ledger
app_get(exps, start_date, end_date) ==
    IF start_date # None /\ parse_date(start_date) = NoDate THEN Response(exps, 400)
    ELSE IF end_date # None /\ parse_date(end_date) = NoDate THEN Response(exps, 400)
    ELSE Response(exps, 200)

\* the handler of POST /logout: the user pool signs the token out, or refuses
app_logout(exps, signed_out) ==
    IF signed_out THEN Response(exps, 200) ELSE Response(exps, 400)

\* what requests carry
AuthHeaders ==
    {NoHeader, <<"Basic", "good">>, <<"Bearer", "">>,
     <<"Bearer", "expired">>, <<"Bearer", "good">>}

DateTexts == {"2025-04-01", "2025-4-2", "yesterday"}

Bodies ==
    {Body(amount, category, date, description) :
        amount \in {NoAmount, StrAmount(<<"0", "1", "0">>), StrAmount(<<"5">>),
                    StrAmount(<<"x">>)},
        category \in {None, "", "Food"},
        date \in {None, "2025-04-01", "yesterday"},
        description \in {None, "lunch"}}

GetEndpoints == {"GET /expense", "GET /balance", "GET /summary"}

\* one request through the decorator: the wrapped handler runs, and its
\* outcome r becomes the response, only when token_required lets it
Serve(endpoint, auth_header, expense_id, data, start_date, end_date, r) ==
    /\ http_last = NoRequest
    /\ IF token_required(auth_header) THEN
            /\ expenses' = r.expenses
            /\ http_last' = Request(endpoint, auth_header, expense_id, data,
                                    start_date, end_date, r.status, TRUE)
       ELSE
            /\ expenses' = expenses
            /\ http_last' = Request(endpoint, auth_header, expense_id, data,
                                    start_date, end_date, 401, FALSE)
    /\ UNCHANGED <<last, v2vars, threads>>

PostExpense ==
    \E auth_header \in AuthHeaders, data \in Bodies :
        /\ Serve("POST /expense", auth_header, 0, data, None, None,
                 app_add_expense(expenses, nextId, data))
        /\ Len(expenses') > Len(expenses) => nextId <= MaxIds
        /\ nextId' = IF Len(expenses') > Len(expenses) THEN nextId + 1 ELSE nextId

PutExpense ==
    \E auth_header \in AuthHeaders, expense_id \in Ids, data \in Bodies :
        /\ Serve("PUT /expense", auth_header, expense_id, data, None, None,
                 app_update_expense(expenses, expense_id, data))
        /\ UNCHANGED nextId

DeleteExpenseRequest ==
    \E auth_header \in AuthHeaders, expense_id \in Ids :
        /\ Serve("DELETE /expense", auth_header, expense_id, NoBody, None, None,
                 app_delete_expense(expenses, expense_id))
        /\ UNCHANGED nextId

GetRequest ==
    \E endpoint \in GetEndpoints, auth_header \in AuthHeaders,
       start_date \in {None} \cup DateTexts, end_date \in {None} \cup DateTexts :
        /\ Serve(endpoint, auth_header, 0, NoBody, start_date, end_date,
                 app_get(expenses, start_date, end_date))
        /\ UNCHANGED nextId

Logout ==
    \E auth_header \in AuthHeaders, signed_out \in BOOLEAN :
        /\ Serve("POST /logout", auth_header, 0, NoBody, None, None,
                 app_logout(expenses, signed_out))
        /\ UNCHANGED nextId

\* the response has gone out; the application serves the next request
Respond ==
    /\ http_last # NoRequest
    /\ http_last' = NoRequest
    /\ UNCHANGED <<expenses, nextId, last, v2vars, threads>>

NextApp ==
    \/ PostExpense
    \/ PutExpense
    \/ DeleteExpenseRequest
    \/ GetRequest
    \/ Logout
    \/ Respond

SpecApp == Init /\ [][NextApp]_vars

\* ------------------------------------------------------------------------
\* The handlers run by the threads of the server, statement by statement,
\* over the one BudgetTracker of the process; the requests are authenticated
\* ------------------------------------------------------------------------

\* the response is ready
Done(op, expense_id, status) ==
    Frame(op, "done", expense_id, NoAmount, None, NoDate, <<>>, 0, {}, 0, status)

\* an assignment to an attribute of the Expense object a thread holds: it
\* shows in the list while the object is in it
WriteOn(exps, expense_id, amount, category) ==
    [i \in 1..Len(exps) |->
        IF exps[i].id = expense_id
        THEN WriteCategory(WriteAmount(exps[i], amount), category)
        ELSE exps[i]]

\* summary.items()
SummaryItems(summary) == {<<c, summary[c]>> : c \in DOMAIN summary}

\* POST /expense: the body is checked and the record appended in one step
ThreadAddExpense(t) ==
    \E category \in Categories :
        LET data == Body(StrAmount(<<"0", "1", "0">>), category, "2025-04-01", None)
            r == app_add_expense(expenses, nextId, data)
        IN  /\ threads[t].pc = "idle"
            /\ nextId <= MaxIds
            /\ expenses' = r.expenses
            /\ nextId' = nextId + 1
            /\ threads' = [threads EXCEPT ![t] = Done("add", 0, r.status)]
            /\ UNCHANGED <<last, v2vars, http_last>>

\* PUT /expense/<expense_id>, update_expense up to
\* "if expense.id == expense_id": the loop has found the record or ended
ThreadUpdateFind(t) ==
    \E expense_id \in Ids, amount \in {NoAmount, StrAmount(<<"5">>)},
       category \in {None, "Rent"} :
        LET i == FindExpense(expenses, expense_id)
        IN  /\ threads[t].pc = "idle"
            /\ threads' = [threads EXCEPT ![t] =
                    IF amount = NoAmount /\ category = None
                    THEN Done("update", expense_id, 400)
                    ELSE IF i = 0 THEN Done("update", expense_id, 404)
                    ELSE Frame("update", "amount", expense_id, amount, category,
                               NoDate, <<expenses[i]>>, i, {}, 0, 0)]
            /\ UNCHANGED <<expenses, nextId, last, v2vars, http_last>>

\* "if amount is not None: ... expense.amount = amount"
ThreadUpdateAmount(t) ==
    LET f == threads[t]
    IN  /\ f.pc = "amount"
        /\ IF f.amount # NoAmount /\ ~AmountParses(f.amount) THEN
                /\ threads' = [threads EXCEPT ![t] = Done("update", f.expense_id, 400)]
                /\ UNCHANGED expenses
           ELSE
                /\ expenses' = WriteOn(expenses, f.expense_id, f.amount, None)
                /\ threads' = [threads EXCEPT ![t].pc = "category"]
        /\ UNCHANGED <<nextId, last, v2vars, http_last>>

\* "if category is not None: ... expense.category = category", and the rest
\* of update_expense, which assigns nothing when the body has no date and
\* no description
ThreadUpdateCategory(t) ==
    LET f == threads[t]
    IN  /\ f.pc = "category"
        /\ IF f.category # None /\ f.category = "" THEN
                /\ threads' = [threads EXCEPT ![t] = Done("update", f.expense_id, 400)]
                /\ UNCHANGED expenses
           ELSE
                /\ expenses' = WriteOn(expenses, f.expense_id, NoAmount, f.category)
                /\ threads' = [threads EXCEPT ![t] = Done("update", f.expense_id, 200)]
        /\ UNCHANGED <<nextId, last, v2vars, http_last>>

\* DELETE /expense/<expense_id>, delete_expense up to
\* "if expense.id == expense_id": enumerate has given the index i
ThreadDeleteFind(t) ==
    \E expense_id \in Ids :
        LET i == FindExpense(expenses, expense_id)
        IN  /\ threads[t].pc = "idle"
            /\ threads' = [threads EXCEPT ![t] =
                    IF i = 0 THEN Done("delete", expense_id, 404)
                    ELSE Frame("delete", "del", expense_id, NoAmount, None,
                               NoDate, <<>>, i, {}, 0, 0)]
            /\ UNCHANGED <<expenses, nextId, last, v2vars, http_last>>

\* "del self._expenses[i]": the element at that index now, or IndexError
\* (no handler catches it: status 500) when the list has become shorter;
\* before keeps the record removed
ThreadDeleteDel(t) ==
    LET f == threads[t]
    IN  /\ f.pc = "del"
        /\ IF f.index <= Len(expenses) THEN
                /\ expenses' = RemoveAt(expenses, f.index)
                /\ threads' = [threads EXCEPT ![t] =
                        [Done("delete", f.expense_id, 200)
                            EXCEPT !.before = <<expenses[f.index]>>]]
           ELSE
                /\ threads' = [threads EXCEPT ![t] = Done("delete", f.expense_id, 500)]
                /\ UNCHANGED expenses
        /\ UNCHANGED <<nextId, last, v2vars, http_last>>

\* GET /expense: get_expenses() copies the list
ThreadGetExpenses(t) ==
    /\ threads[t].pc = "idle"
    /\ threads' = [threads EXCEPT ![t] = Done("get", 0, 200)]
    /\ UNCHANGED <<expenses, nextId, last, v2vars, http_last>>

\* GET /summary: "summary = budget_tracker.get_category_summary(...)"
ThreadSummary(t) ==
    \E start_date \in {NoDate, 2} :
        /\ threads[t].pc = "idle"
        /\ threads' = [threads EXCEPT ![t] =
                Frame("summary", "total", 0, NoAmount, None, start_date, <<>>, 0,
                      SummaryItems(get_category_summary(expenses, start_date, NoDate)),
                      0, 0)]
        /\ UNCHANGED <<expenses, nextId, last, v2vars, http_last>>

\* GET /summary: "total = budget_tracker.get_total_expenses(...)", and the
\* response with both
ThreadSummaryTotal(t) ==
    LET f == threads[t]
    IN  /\ f.pc = "total"
        /\ threads' = [threads EXCEPT ![t] =
                [f EXCEPT !.pc = "done", !.status = 200,
                          !.total = get_total_expenses(expenses, f.start_date, NoDate)]]
        /\ UNCHANGED <<expenses, nextId, last, v2vars, http_last>>

\* the response has gone out; the thread takes the next request
ThreadReturn(t) ==
    /\ threads[t].pc = "done"
    /\ threads' = [threads EXCEPT ![t] = IdleFrame]
    /\ UNCHANGED <<expenses, nextId, last, v2vars, http_last>>

NextThreads ==
    \E t \in Threads :
        \/ ThreadAddExpense(t)
        \/ ThreadUpdateFind(t)
        \/ ThreadUpdateAmount(t)
        \/ ThreadUpdateCategory(t)
        \/ ThreadDeleteFind(t)
        \/ ThreadDeleteDel(t)
        \/ ThreadGetExpenses(t)
        \/ ThreadSummary(t)
        \/ ThreadSummaryTotal(t)
        \/ ThreadReturn(t)

SpecThreads == Init /\ [][NextThreads]_vars

\* ------------------------------------------------------------------------
\* Vocabulary of the properties
\* ------------------------------------------------------------------------

IdsOf(exps) == {exps[i].id : i \in 1..Len(exps)}

Stored(exps, expense_id) == expense_id \in IdsOf(exps)

Supplied(call) ==
    /\ call.amount # NoAmount => AmountParses(call.amount)
    /\ call.category # None => call.category # ""

EmptyCategory(category) == category = "" \/ category = None

\* the record has every field the call supplies
Applied(e, call) ==
    /\ call.amount # NoAmount => e.amount = ToDecimal(call.amount)
    /\ call.category # None => e.category = call.category
    /\ call.date # NoDate => e.date = call.date
    /\ call.description # None => e.description = call.description

\* ------------------------------------------------------------------------
\* Properties of BudgetTracker
\* ------------------------------------------------------------------------

\* C1: update_expense is all-or-nothing: a call on a stored record either
\* returns the record with every supplied field applied, or raises
\* ValueError having changed no field of any record.
C1_UpdateAllOrNothing ==
    [][(last'.op = "update" /\ Stored(expenses, last'.expense_id)) =>
          \/ /\ last'.result.kind = "expense"
             /\ Applied(expenses'[FindExpense(expenses', last'.expense_id)], last')
          \/ /\ last'.result = Raised
             /\ expenses' = expenses]_vars

\* C2: add_expense with an amount that does not parse as a decimal, or with
\* an empty or absent category, raises ValueError and leaves the ledger as
\* it was: same records, same order, same size.
C2_InvalidAddLeavesLedger ==
    [][(last'.op = "add" /\ (~AmountParses(last'.amount) \/ EmptyCategory(last'.category))) =>
          /\ last'.result = Raised
          /\ expenses' = expenses]_vars

C2_Witness ==
    /\ last.op = "add"
    /\ AmountParses(last.amount)
    /\ last.category = ""
    /\ last.result = Raised
    /\ Len(expenses) = 2

\* C3: in every state, whatever calls were made and whether they failed,
\* every stored record has a non-empty category and no two stored records
\* share an id.
C3_CategoryAndIdInvariant ==
    /\ \A i \in 1..Len(expenses) : ~EmptyCategory(expenses[i].category)
    /\ \A i, j \in 1..Len(expenses) : expenses[i].id = expenses[j].id => i = j

C3_Witness ==
    /\ last.op = "update"
    /\ last.category = ""
    /\ last.result = Raised
    /\ Len(expenses) = 2

\* C4: after a successful add_expense the unfiltered get_expenses() holds
\* exactly one record with the returned id, that record carries the amount
\* (as a decimal), category, date and description passed, and the ledger
\* has grown by exactly one record.
C4_AddStoresWhatWasPassed ==
    [][(last'.op = "add" /\ last'.result.kind = "expense") =>
          LET listed == get_expenses(expenses', NoDate, NoDate)
              hits == {i \in 1..Len(listed) : listed[i].id = last'.result.id}
          IN  /\ Cardinality(hits) = 1
              /\ \A i \in hits :
                    /\ listed[i].amount = ToDecimal(last'.amount)
                    /\ listed[i].category = last'.category
                    /\ listed[i].date = last'.date
                    /\ listed[i].description = last'.description
              /\ Len(expenses') = Len(expenses) + 1]_vars

C4_Witness ==
    /\ last.op = "add"
    /\ last.result.kind = "expense"
    /\ last.amount.kind = "str"
    /\ last.description = "lunch"
    /\ Len(expenses) = 2

\* C5: update_expense on an id that matches no stored record returns None
\* without raising, whatever is supplied (an invalid amount or an empty
\* category included), and leaves the ledger unchanged.
C5_UpdateUnknownId ==
    [][(last'.op = "update" /\ ~Stored(expenses, last'.expense_id)) =>
          /\ last'.result = Returned("None")
          /\ expenses' = expenses]_vars

C5_Witness ==
    /\ last.op = "update"
    /\ ~Stored(expenses, last.expense_id)
    /\ ~Supplied(last)
    /\ last.result = Returned("None")
    /\ Len(expenses) >= 1

\* C6: a successful update_expense changes only the supplied fields of the
\* record with that id: its id and its unsupplied fields keep their values,
\* and every other record, and the order of the ledger, is unchanged.
C6_UpdateFrame ==
    [][(last'.op = "update" /\ last'.result.kind = "expense") =>
          /\ Len(expenses') = Len(expenses)
          /\ \A i \in 1..Len(expenses) :
                /\ expenses'[i].id = expenses[i].id
                /\ expenses[i].id # last'.expense_id => expenses'[i] = expenses[i]
                /\ last'.amount = NoAmount => expenses'[i].amount = expenses[i].amount
                /\ last'.category = None => expenses'[i].category = expenses[i].category
                /\ last'.date = NoDate => expenses'[i].date = expenses[i].date
                /\ last'.description = None =>
                      expenses'[i].description = expenses[i].description]_vars

C6_Witness ==
    /\ last.op = "update"
    /\ last.result.kind = "expense"
    /\ last.amount # NoAmount
    /\ last.category = None
    /\ last.date # NoDate
    /\ last.description = None
    /\ Len(expenses) = 2

\* C7: for any ledger holding a record with id x, delete_expense(x) returns
\* True, a second delete_expense(x) returns False, and the ledger after
\* both is one record shorter than before.
C7_DeleteTwice ==
    \A x \in IdsOf(expenses) :
        LET first == delete_expense(expenses, x)
            second == delete_expense(first.expenses, x)
        IN  /\ first.result = Returned("True")
            /\ second.result = Returned("False")
            /\ Len(second.expenses) = Len(expenses) - 1

\* a delete of an id that was handed out and is no longer stored
C7_Witness ==
    /\ last.op = "delete"
    /\ last.expense_id < nextId
    /\ last.result = Returned("False")
    /\ Len(expenses) >= 1

InRange(e, start_date, end_date) ==
    /\ start_date = NoDate \/ e.date >= start_date
    /\ end_date = NoDate \/ e.date <= end_date

\* C9: get_expenses(start_date, end_date) returns exactly the stored records
\* whose date is >= start_date (when given) and <= end_date (when given),
\* in ledger order; a record dated exactly on a bound is included.
C9_DateRangeInclusive ==
    [][last'.op = "get" =>
          last'.result.list =
              SelectSeq(expenses, LAMBDA e : InRange(e, last'.start_date, last'.end_date))]_vars

\* one record on both bounds is returned, one outside them is not
C9_Witness ==
    /\ last.op = "get"
    /\ last.start_date = 2
    /\ last.end_date = 2
    /\ Len(expenses) = 2
    /\ Len(last.result.list) = 1
    /\ last.result.list[1].date = 2

\* ------------------------------------------------------------------------
\* Properties of BudgetTrackerV2
\* ------------------------------------------------------------------------

\* C10: check_budget_status for a category whose limit is exactly zero
\* returns the status over_limit, whatever was spent, and does not fail
\* with a division fault.
C10_ZeroLimitIsOverLimit ==
    (/\ v2_last.op = "check"
     /\ v2_last.category \in DOMAIN budget_limits
     /\ budget_limits[v2_last.category] = 0) =>
        /\ v2_last.result.kind = "status"
        /\ v2_last.result.status = "over_limit"

\* the sum of the amounts of the records of a category among the first n
RECURSIVE CategorySum(_, _, _)
CategorySum(exps, n, category) ==
    IF n = 0 THEN 0
    ELSE CategorySum(exps, n - 1, category)
         + (IF exps[n].category = category THEN exps[n].amount ELSE 0)

\* C11: for a positive limit, check_budget_status reports over_limit when
\* spent / limit * 100 >= 100, otherwise near_limit when it is >= 80 (80
\* included), otherwise under_limit; the spent it returns is the sum of the
\* amounts of the category's records and the limit is the configured one.
C11_StatusThresholds ==
    (/\ v2_last.op = "check"
     /\ v2_last.category \in DOMAIN budget_limits
     /\ budget_limits[v2_last.category] > 0) =>
        LET limit == budget_limits[v2_last.category]
            spent == CategorySum(v2_expenses, Len(v2_expenses), v2_last.category)
        IN  /\ v2_last.result.kind = "status"
            /\ v2_last.result.spent = spent
            /\ v2_last.result.limit = limit
            /\ v2_last.result.status =
                  IF 100 * spent >= 100 * limit THEN "over_limit"
                  ELSE IF 100 * spent >= 80 * limit THEN "near_limit"
                  ELSE "under_limit"

\* spent is exactly 80 percent of the limit
C11_Witness ==
    /\ v2_last.op = "check"
    /\ v2_last.result.kind = "status"
    /\ v2_last.result.status = "near_limit"
    /\ v2_last.result.limit > 0
    /\ 100 * v2_last.result.spent = 80 * v2_last.result.limit

\* C12: check_budget_status for a category without a configured limit
\* returns the status no_limit and attempts no division, whatever records
\* the category has.
C12_NoLimit ==
    (/\ v2_last.op = "check"
     /\ v2_last.category \notin DOMAIN budget_limits) =>
        /\ v2_last.result.kind = "status"
        /\ v2_last.result.status = "no_limit"

C12_Witness ==
    /\ v2_last.op = "check"
    /\ v2_last.category \notin DOMAIN budget_limits
    /\ \E i \in 1..Len(v2_expenses) : v2_expenses[i].category = v2_last.category
    /\ v2_last.result.status = "no_limit"

\* C18: set_budget_limit is an upsert by category: after a call that
\* succeeds the limit of that category is the one given, the limits of the
\* other categories and the expense records are as before, and no step ever
\* takes a limit away from a category that has one.
C18_LimitUpsert ==
    [][/\ DOMAIN budget_limits \subseteq DOMAIN budget_limits'
       /\ (v2_last'.op = "set_limit" /\ AmountParses(v2_last'.limit)) =>
             /\ v2_last'.result = Success
             /\ DOMAIN budget_limits' = DOMAIN budget_limits \cup {v2_last'.category}
             /\ budget_limits'[v2_last'.category] = ToDecimal(v2_last'.limit)
             /\ \A c \in DOMAIN budget_limits :
                   c # v2_last'.category => budget_limits'[c] = budget_limits[c]
             /\ v2_expenses' = v2_expenses]_vars

\* a limit is overwritten while another category keeps its own
C18_Witness ==
    /\ v2_last.op = "set_limit"
    /\ v2_last.result = Success
    /\ DOMAIN budget_limits = Categories
    /\ \E c \in Categories : budget_limits[c] # budget_limits[v2_last.category]
    /\ Len(v2_expenses) >= 1

\* ------------------------------------------------------------------------
\* Properties of the queries of BudgetTracker
\* ------------------------------------------------------------------------

\* the records of the ledger the bounds let through
View(exps, start_date, end_date) ==
    SelectSeq(exps, LAMBDA e : InRange(e, start_date, end_date))

\* the sum of the amounts of the first n records
RECURSIVE AmountSum(_, _)
AmountSum(exps, n) ==
    IF n = 0 THEN 0 ELSE AmountSum(exps, n - 1) + exps[n].amount

ReadOps == {"get", "by_category", "summary", "total"}

\* C13: get_category_summary returns a mapping whose keys are exactly the
\* categories of the records in the (date-filtered) view and whose value
\* for a category is the sum of the amounts of its records in the view; a
\* category without a record in the view does not appear.
C13_CategorySummary ==
    [][last'.op = "summary" =>
          LET view == View(expenses, last'.start_date, last'.end_date)
              summary == last'.result.summary
          IN  /\ DOMAIN summary = {view[i].category : i \in 1..Len(view)}
              /\ \A c \in DOMAIN summary :
                    summary[c] = CategorySum(view, Len(view), c)]_vars

\* two categories are stored and the bounds let only one of them through
C13_Witness ==
    /\ last.op = "summary"
    /\ Len(expenses) = 2
    /\ expenses[1].category # expenses[2].category
    /\ Cardinality(DOMAIN last.result.summary) = 1

\* C14: get_total_expenses returns the sum of the amounts of all records in
\* the (date-filtered) view, and zero when the view is empty.
C14_TotalExpenses ==
    [][last'.op = "total" =>
          LET view == View(expenses, last'.start_date, last'.end_date)
          IN  /\ last'.result.total = AmountSum(view, Len(view))
              /\ Len(view) = 0 => last'.result.total = 0]_vars

\* the bounds let one of two records through
C14_Witness ==
    /\ last.op = "total"
    /\ Len(expenses) = 2
    /\ last.start_date = 2
    /\ expenses[1].date = 1
    /\ expenses[2].date = 2
    /\ last.result.total = expenses[2].amount

\* C15: get_expenses_by_category(c) returns exactly the stored records whose
\* category is the very string c (case matters), in ledger order; and a
\* record just added with category c is among them with all its fields.
C15_ByCategoryExact ==
    [][/\ last'.op = "by_category" =>
             last'.result.list =
                 SelectSeq(expenses, LAMBDA e : e.category = last'.category)
       /\ (last'.op = "add" /\ last'.result.kind = "expense") =>
             LET listed == get_expenses_by_category(expenses', last'.category)
             IN  \E i \in 1..Len(listed) :
                    listed[i] = Expense(ToDecimal(last'.amount), last'.category,
                                        last'.date, last'.description,
                                        last'.result.id)]_vars

\* "food" is asked for while "Food" is stored: nothing is returned
C15_Witness ==
    /\ last.op = "by_category"
    /\ last.category = "food"
    /\ \E i \in 1..Len(expenses) : expenses[i].category = "Food"
    /\ last.result.list = <<>>

\* C16: in every state, for every category of the unfiltered summary, the
\* amounts of get_expenses_by_category(c) add up to get_category_summary()[c].
C16_BreakdownMatchesSummary ==
    LET summary == get_category_summary(expenses, NoDate, NoDate)
    IN  \A c \in DOMAIN summary :
            LET listed == get_expenses_by_category(expenses, c)
            IN  AmountSum(listed, Len(listed)) = summary[c]

\* a summary over two records of one category
C16_Witness ==
    /\ last.op = "summary"
    /\ last.start_date = NoDate
    /\ last.end_date = NoDate
    /\ Len(expenses) = 2
    /\ expenses[1].category = expenses[2].category
    /\ last.result.summary[expenses[1].category] = expenses[1].amount + expenses[2].amount

\* C17: get_expenses, get_expenses_by_category, get_category_summary and
\* get_total_expenses leave the stored records, their fields and their
\* order as they were.
C17_ReadsLeaveLedger ==
    [][last'.op \in ReadOps => expenses' = expenses]_vars

C17_Witness ==
    /\ last.op = "summary"
    /\ last.end_date = 1
    /\ Len(expenses) = 2
    /\ expenses[1].date = 2
    /\ expenses[1].amount # expenses[2].amount


\* the endpoints behind token_required that this model serves
ProtectedEndpoints ==
    {"POST /expense", "PUT /expense", "DELETE /expense", "POST /logout"}
        \cup GetEndpoints

\* the Authorization header is absent, is not of the Bearer scheme, or
\* names the scheme with an empty token
NoBearerToken(auth_header) ==
    \/ auth_header = NoHeader
    \/ Len(auth_header) < 2
    \/ auth_header[1] # "Bearer"
    \/ auth_header[2] = ""

Unauthenticated(request) ==
    \/ NoBearerToken(request.auth_header)
    \/ ~verify_token(request.auth_header[2])

\* C19: a request to a protected endpoint (expense, balance, summary, logout)
\* that carries no bearer token, or a token verify_token reports invalid, is
\* answered 401, the wrapped handler does not run, and the ledger is as it
\* was before the request
C19_UnauthenticatedIs401 ==
    [][(/\ http_last = NoRequest
        /\ http_last' # NoRequest
        /\ http_last'.endpoint \in ProtectedEndpoints
        /\ Unauthenticated(http_last'))
            => (/\ http_last'.status = 401
                /\ ~http_last'.handled
                /\ expenses' = expenses)]_vars

\* a DELETE of a stored record carrying an expired token has been answered
\* 401, and the record is still in the ledger
C19_Witness ==
    /\ http_last.endpoint = "DELETE /expense"
    /\ http_last.auth_header = <<"Bearer", "expired">>
    /\ http_last.status = 401
    /\ Stored(expenses, http_last.expense_id)

\* C20: an authenticated POST /expense, PUT /expense/<id> or
\* DELETE /expense/<id> that is answered 400 or 404 leaves the ledger
\* unchanged
C20_RejectedRequestLeavesLedger ==
    [][(/\ http_last = NoRequest
        /\ http_last' # NoRequest
        /\ http_last'.handled
        /\ http_last'.endpoint \in {"POST /expense", "PUT /expense", "DELETE /expense"}
        /\ http_last'.status \in {400, 404})
            => expenses' = expenses]_vars


\* ------------------------------------------------------------------------
\* Properties of the record operations of BudgetTrackerV2
\* ------------------------------------------------------------------------

\* C22: update_expense of BudgetTrackerV2 validates a supplied category as
\* add_expense does, so every record the tracker stores has a non-empty
\* category, whatever operations came before
C22_V2CategoryNonEmpty ==
    \A i \in 1..Len(v2_expenses) :
        /\ v2_expenses[i].category # ""
        /\ v2_expenses[i].category # None

\* C28: add_expense, update_expense and delete_expense of BudgetTrackerV2
\* never raise, and a call on the in-memory tracker answered success False
\* has changed, added or removed no record
C28_V2FailureLeavesRecords ==
    [][(/\ v2_last = NoV2Call
        /\ v2_last'.op \in {"add", "update", "delete"})
            => (/\ v2_last'.result.kind \in {"success", "failure"}
                /\ v2_last'.result.kind = "failure" => v2_expenses' = v2_expenses)]_vars


\* the records other than the one with that id, as they are and in the
\* order they have
Without(exps, expense_id) ==
    SelectSeq(exps, LAMBDA expense : expense.id # expense_id)

C29_OverLimitWhenSpentReachesLimit ==
    (/\ v2_last.op = "check"
     /\ v2_last.category \in DOMAIN budget_limits
     /\ budget_limits[v2_last.category] # 0
     /\ CategorySum(v2_expenses, Len(v2_expenses), v2_last.category)
            >= budget_limits[v2_last.category]) =>
        /\ v2_last.result.kind = "status"
        /\ v2_last.result.status = "over_limit"


\* ------------------------------------------------------------------------
\* Properties of BudgetTrackerV2 with a table
\* ------------------------------------------------------------------------

\* C21: with a table, update_expense and delete_expense on an id that has no
\* item report not-found (success False) and leave the table as it was: no
\* item is created or removed
C21_TableUnknownId ==
    [][(/\ db_last = NoDbCall
        /\ db_last'.op \in {"update", "delete"}
        /\ db_last'.expense_id \notin DOMAIN db_table)
            => (/\ db_last'.result = Failure
                /\ DOMAIN db_table' = DOMAIN db_table)]_vars

\* C23: with a table, each add_expense, update_expense, delete_expense,
\* get_expenses and get_expenses_by_category calls the table at most once,
\* and exactly once when it succeeds: no retry, batching or caching
C23_OneStoreCall ==
    [][(/\ db_last = NoDbCall
        /\ db_last' # NoDbCall)
            => (/\ db_last'.calls <= 1
                /\ db_last'.result.kind = "success" => db_last'.calls = 1)]_vars

\* the table refused the one put_item of an add_expense whose arguments were
\* valid: the call has failed and was not tried again
C23_Witness ==
    /\ db_last.op = "add"
    /\ ~db_last.store_ok
    /\ db_last.result = Failure
    /\ db_last.calls = 1
    /\ v2_last.result.kind = "success"

\* two answers of get_category_summary and get_total_expenses are the same
SameTotals(a, b) ==
    /\ a.kind = b.kind
    /\ a.kind = "returned" =>
        /\ a.total = b.total
        /\ DOMAIN a.summary = DOMAIN b.summary
        /\ \A c \in DOMAIN a.summary : a.summary[c] = b.summary[c]

\* C30: handed the same add_expense, update_expense and delete_expense calls
\* (with the same ids), the tracker without a table and the tracker with one
\* return the same success or failure each time and afterwards answer the
\* same category summary and total, as long as the table answers its calls
C30_BackingsEquivalent ==
    [][(/\ db_last = NoDbCall
        /\ db_last'.op \in {"add", "update", "delete"}
        /\ ~store_failed')
            => (/\ v2_last'.result.kind = db_last'.result.kind
                /\ SameTotals(v2_totals(v2_expenses'), db_totals(db_table')))]_vars


\* ------------------------------------------------------------------------
\* Properties of requests handled at the same time
\* ------------------------------------------------------------------------

\* thread t executes a read of the ledger in this step: get_expenses,
\* get_category_summary or get_total_expenses
ReadStep(t) ==
    \/ threads[t].pc = "idle" /\ threads'[t].op \in {"get", "summary"}
    \/ threads[t].pc = "total" /\ threads'[t].pc = "done"

\* the update a thread is in has assigned the amount it supplies and not yet
\* the category it supplies, and the record in the list shows just that
PartlyUpdated(f, exps) ==
    /\ f.op = "update"
    /\ f.pc = "category"
    /\ f.amount # NoAmount
    /\ f.category # None
    /\ \E i \in 1..Len(exps) :
        /\ exps[i].id = f.expense_id
        /\ exps[i].amount = ToDecimal(f.amount)
        /\ exps[i].category # f.category

\* C24: when requests on the shared BudgetTracker interleave, no read
\* (get_expenses, get_category_summary, get_total_expenses) finds a record in
\* the middle of an update_expense, carrying some but not all of the fields
\* that update supplies
C24_NoPartialUpdateRead ==
    [][\A t \in Threads :
        ReadStep(t) =>
            \A u \in Threads \ {t} :
                ~PartlyUpdated(threads[u], get_expenses(expenses, NoDate, NoDate))]_vars

\* C26: when delete_expense calls on the shared BudgetTracker interleave
\* between finding the index of a record and removing the element at that
\* index, each call removes the record whose id it was given, never another
\* one, and never fails with an IndexError
C26_DeleteRemovesItsRecord ==
    [][\A t \in Threads :
        (threads[t].pc = "del" /\ threads'[t].pc = "done") =>
            /\ threads'[t].status = 200
            /\ threads'[t].before[1].id = threads'[t].expense_id
            /\ expenses' = Without(expenses, threads'[t].expense_id)]_vars

\* the sum of the totals of the items of a summary
RECURSIVE SumOfItems(_)
SumOfItems(items) ==
    IF items = {} THEN 0
    ELSE LET item == CHOOSE item \in items : TRUE
         IN  item[2] + SumOfItems(items \ {item})

\* C27: in every response of GET /summary the total is the sum of the
\* per-category totals, for any date range, also when other requests add,
\* update or delete expenses while the request is served
C27_SummaryTotalConsistent ==
    \A t \in Threads :
        (threads[t].op = "summary" /\ threads[t].pc = "done") =>
            threads[t].total = SumOfItems(threads[t].summary)

====
